---- MODULE Spec2Model ----
(***************************************************************************)
(* A model of the D2Q9 lattice Boltzmann solver of                         *)
(* src/hw0/lbm_solver-wo.py (class lbm_solver): the grid fields, the four  *)
(* kernels of a time step, init, and the time loop of solve().             *)
(*                                                                         *)
(* Numbers.  The program computes in f32.  The model computes in fixed     *)
(* point: a density or a distribution value x is the integer x * FOne, a   *)
(* velocity component u is the integer u * VOne, and every product or      *)
(* quotient is rounded to the nearest representable value (Round), as a    *)
(* floating-point operation rounds its result.  A division by zero gives   *)
(* the absorbing value NaN (the program's inf/nan), which every operation  *)
(* passes on.  The lattice weights are kept as multiples of 1/36, so the   *)
(* arithmetic on the initial state is exact.                               *)
(*                                                                         *)
(* Parallel loops.  Every top-level `for` of a Taichi kernel is a parallel *)
(* loop.  The model runs the iterations of one loop one after the other,   *)
(* in ascending or in descending index order (Schedules): every pair of    *)
(* iterations is run in both relative orders.  The loops of one kernel     *)
(* run one after the other, as Taichi serialises them.                     *)
(*                                                                         *)
(* Two runs.  The fields rho, vel, ... are those of one run of the         *)
(* program; `replay` holds the fields of a second run with the same        *)
(* parameters, stepped by the same kernels with its own schedule.          *)
(***************************************************************************)
EXTENDS Integers, Sequences, FiniteSets, TLC

(* ------------------------------ bounds -------------------------------- *)
\* largest grid width and height explored (the smallest is 3: a grid has an
\* interior only from 3 cells on in each direction)
MaxNx == 4
MaxNy == 4
\* largest value of the parameter `steps`
MaxSteps == 2

(* ------------------------- number representation ---------------------- *)
\* the integer that stands for density 1.0 (a multiple of 36)
FOne == 36 * 100
\* the integer that stands for velocity 1.0
VOne == 2 * 10
\* the result of a division by zero, and of any operation on it
NaN == 0 - 2^30

Fin(x) == x # NaN

\* n / d for d > 0, rounded to the nearest integer
Round(n, d) == (2 * n + d) \div (2 * d)

\* a / b as the program's `/`: no guard on b
Div(a, b) ==
    IF ~Fin(a) \/ ~Fin(b) \/ b = 0 THEN NaN
    ELSE IF b < 0 THEN Round(0 - a, 0 - b) ELSE Round(a, b)

Add(a, b) == IF Fin(a) /\ Fin(b) THEN a + b ELSE NaN
Mul(a, b) == IF Fin(a) /\ Fin(b) THEN a * b ELSE NaN
Sub(a, b) == IF Fin(a) /\ Fin(b) THEN a - b ELSE NaN

\* floor of the square root of x >= 0, sought below the bound b
ISqrt(x, b) == CHOOSE r \in 0..b : r * r <= x /\ x < (r + 1) * (r + 1)

Abs(x) == IF x < 0 THEN 0 - x ELSE x

(* --------------------------- lattice constants ------------------------ *)
Q == 0..8

\* self.w, in units of 1/36
w == [k \in Q |-> IF k = 0 THEN 16 ELSE IF k <= 4 THEN 4 ELSE 1]

\* self.e: e[k] = <<e[k,0], e[k,1]>>
e == [k \in Q |->
        << <<0, 0>>, <<1, 0>>, <<0, 1>>, <<-1, 0>>, <<0, -1>>,
           <<1, 1>>, <<-1, 1>>, <<-1, -1>>, <<1, -1>> >>[k + 1]]

(* ------------------------------- state -------------------------------- *)
VARIABLES
    \* parameters, set by __init__ and never written again
    nx, ny,         \* domain size
    niu,            \* viscosity, in units of 1/6
    bc_type,        \* [0..3 -> {0, 1}]: left, top, right, bottom
    bc_value,       \* [0..3 -> velocity]
    cy,             \* 1: place the obstacle
    cy_para,        \* <<cx, cy, r>> of the obstacle, in half cells
    steps,          \* total steps to run
    \* fields of the first run
    rho, vel, mask, f_old, f_new, display_var,
    \* fields of the second run
    replay,
    \* solve()
    pc,             \* the call solve() makes next
    i,              \* the loop variable of solve()
    \* history
    trace,          \* the kernels called so far, in order
    touched         \* the cell indices the last kernel read or wrote

params == <<nx, ny, niu, bc_type, bc_value, cy, cy_para, steps>>
fields == <<rho, vel, mask, f_old, f_new, display_var>>
vars == <<params, fields, replay, pc, i, trace, touched>>

Cells == (0..(nx - 1)) \X (0..(ny - 1))
Interior == (1..(nx - 2)) \X (1..(ny - 2))
Ring == Cells \ Interior

\* 2 * tau, from tau = 3.0 * niu + 0.5
tau == niu + 1

\* the fields of the first run as one value
Grid ==
    [rho |-> rho, vel |-> vel, mask |-> mask, f_old |-> f_old,
     f_new |-> f_new, display_var |-> display_var]

SetGrid(g) ==
    /\ rho' = g.rho
    /\ vel' = g.vel
    /\ mask' = g.mask
    /\ f_old' = g.f_old
    /\ f_new' = g.f_new
    /\ display_var' = g.display_var

\* the fields as allocated: Taichi fields start at zero
Allocated(cells) ==
    [rho |-> [c \in cells |-> 0],
     vel |-> [c \in cells |-> <<0, 0>>],
     mask |-> [c \in cells |-> 0],
     f_old |-> [c \in cells |-> [k \in Q |-> 0]],
     f_new |-> [c \in cells |-> [k \in Q |-> 0]],
     display_var |-> [c \in cells |-> 0]]

(* --------------------------- equilibrium ------------------------------ *)
\* w[k] * rho * (1 + 3 eu + 4.5 eu^2 - 1.5 uv) for density r and velocity v
f_eq_of(r, v, k) ==
    IF ~Fin(r) \/ ~Fin(v[1]) \/ ~Fin(v[2]) THEN NaN
    ELSE LET eu == e[k][1] * v[1] + e[k][2] * v[2]
             uv == v[1] * v[1] + v[2] * v[2]
         IN  Round(w[k] * r * (2 * VOne * VOne + 6 * VOne * eu
                               + 9 * eu * eu - 3 * uv),
                   72 * VOne * VOne)

\* what a read of the fields at index p gives: the cell, or, outside the
\* grid, whatever the memory there holds (junk)
RhoAt(g, p, junk) == IF p \in Cells THEN g.rho[p] ELSE junk.rho
VelAt(g, p, junk) == IF p \in Cells THEN g.vel[p] ELSE junk.vel
FOldAt(g, p, junk) == IF p \in Cells THEN g.f_old[p] ELSE junk.f_old

\* what memory outside the grid may hold: zeros, or a cell at rest
Junk ==
    { [rho |-> 0, vel |-> <<0, 0>>, f_old |-> [k \in Q |-> 0]],
      [rho |-> FOne, vel |-> <<0, 0>>,
       f_old |-> [k \in Q |-> w[k] * (FOne \div 36)]] }

f_eq(g, p, k, junk) == f_eq_of(RhoAt(g, p, junk), VelAt(g, p, junk), k)

NoJunk == CHOOSE junk \in Junk : TRUE

(* ------------------------------ kernels ------------------------------- *)
\* (i - cx)^2 + (j - cy)^2 <= r^2, with cx, cy, r in half cells
InObstacle(c) ==
    (2 * c[1] - cy_para[1]) * (2 * c[1] - cy_para[1])
      + (2 * c[2] - cy_para[2]) * (2 * c[2] - cy_para[2])
      <= cy_para[3] * cy_para[3]

\* init_iter with the distributions computed before rho and vel are set
init_iter_early(g, c) ==
    LET fn == [k \in Q |-> f_eq(g, c, k, NoJunk)]
        g1 == [g EXCEPT !.vel[c] = <<0, 0>>, !.rho[c] = FOne, !.mask[c] = 0,
                        !.f_new[c] = fn, !.f_old[c] = fn]
    IN  IF cy = 1 /\ InObstacle(c) THEN [g1 EXCEPT !.mask[c] = 1] ELSE g1

\* one iteration of the loop of init, at cell c
init_iter(g, c) ==
    LET g1 == [g EXCEPT !.vel[c] = <<0, 0>>, !.rho[c] = FOne, !.mask[c] = 0]
        fn == [k \in Q |-> f_eq(g1, c, k, NoJunk)]
        g2 == [g1 EXCEPT !.f_new[c] = fn, !.f_old[c] = fn]
    IN  IF cy = 1 /\ InObstacle(c) THEN [g2 EXCEPT !.mask[c] = 1] ELSE g2

\* Upstream with the sign of e[k] flipped
Downstream(c, k) == <<c[1] + e[k][1], c[2] + e[k][2]>>

\* the cell direction k streams from into cell c: (ip, jp)
Upstream(c, k) == <<c[1] - e[k][1], c[2] - e[k][2]>>

\* (1 - inv_tau) * fo + fe * inv_tau, with inv_tau = 2 / tau
Relax(fo, fe) ==
    IF Fin(fo) /\ Fin(fe) THEN Round((tau - 2) * fo + 2 * fe, tau) ELSE NaN

\* one iteration of the loop of collide_and_stream, at interior cell c
collide_iter(g, c) ==
    [g EXCEPT !.f_new[c] =
        [k \in Q |-> Relax(FOldAt(g, Upstream(c, k), NoJunk)[k],
                           f_eq(g, Upstream(c, k), k, NoJunk))]]

Sum9(f) == IF \A k \in Q : Fin(f[k])
           THEN f[0] + f[1] + f[2] + f[3] + f[4] + f[5] + f[6] + f[7] + f[8]
           ELSE NaN

\* one iteration of the loop of update_macro_var, at interior cell c
macro_iter(g, c) ==
    LET fn == g.f_new[c]
        r == Sum9(fn)
        mx == Sum9([k \in Q |-> Mul(e[k][1], fn[k])])
        my == Sum9([k \in Q |-> Mul(e[k][2], fn[k])])
    IN  [g EXCEPT !.f_old[c] = fn,
                  !.rho[c] = r,
                  !.vel[c] = <<Div(Mul(VOne, mx), r), Div(Mul(VOne, my), r)>>]

\* apply_bc_core with a Neumann branch that copies the x component only
apply_bc_core_x_only(g, outer, dr, bc, nb, junk) ==
    LET v == IF outer = 1 /\ bc_type[dr] = 0 THEN bc_value[dr]
             ELSE IF outer = 1 /\ bc_type[dr] = 1
                  THEN <<VelAt(g, nb, junk)[1], g.vel[bc][2]>>
             ELSE g.vel[bc]
        g1 == [g EXCEPT !.vel[bc] = v]
        g2 == [g1 EXCEPT !.rho[bc] = RhoAt(g1, nb, junk)]
    IN  [g2 EXCEPT !.f_old[bc] =
            [k \in Q |-> Add(Sub(f_eq(g2, bc, k, junk), f_eq(g2, nb, k, junk)),
                             FOldAt(g2, nb, junk)[k])]]

\* apply_bc_core(outer, dr, ibc, jbc, inb, jnb), with bc = (ibc, jbc) and
\* nb = (inb, jnb)
apply_bc_core(g, outer, dr, bc, nb, junk) ==
    LET v == IF outer = 1 /\ bc_type[dr] = 0 THEN bc_value[dr]
             ELSE IF outer = 1 /\ bc_type[dr] = 1 THEN VelAt(g, nb, junk)
             ELSE g.vel[bc]
        g1 == [g EXCEPT !.vel[bc] = v]
        g2 == [g1 EXCEPT !.rho[bc] = RhoAt(g1, nb, junk)]
    IN  [g2 EXCEPT !.f_old[bc] =
            [k \in Q |-> Add(Sub(f_eq(g2, bc, k, junk), f_eq(g2, nb, k, junk)),
                             FOldAt(g2, nb, junk)[k])]]

\* lr_iter with the right edge given the direction of the left one
lr_iter_left_twice(g, j) ==
    apply_bc_core(apply_bc_core(g, 1, 0, <<0, j>>, <<1, j>>, NoJunk),
                  1, 0, <<nx - 1, j>>, <<nx - 2, j>>, NoJunk)

\* one iteration of the left-and-right loop of apply_bc, at row j
lr_iter(g, j) ==
    apply_bc_core(apply_bc_core(g, 1, 0, <<0, j>>, <<1, j>>, NoJunk),
                  1, 2, <<nx - 1, j>>, <<nx - 2, j>>, NoJunk)

\* tb_iter with the boundary cell and the neighbour of the top edge swapped
tb_iter_swapped(g, ci) ==
    apply_bc_core(apply_bc_core(g, 1, 1, <<ci, ny - 2>>, <<ci, ny - 1>>, NoJunk),
                  1, 3, <<ci, 0>>, <<ci, 1>>, NoJunk)

\* one iteration of the top-and-bottom loop of apply_bc, at column ci
tb_iter(g, ci) ==
    apply_bc_core(apply_bc_core(g, 1, 1, <<ci, ny - 1>>, <<ci, ny - 2>>, NoJunk),
                  1, 3, <<ci, 0>>, <<ci, 1>>, NoJunk)

\* (inb, jnb) of the obstacle loop: one step away from the centre per axis
ObstacleNb(c) ==
    <<IF 2 * c[1] >= cy_para[1] THEN c[1] + 1 ELSE c[1] - 1,
      IF 2 * c[2] >= cy_para[2] THEN c[2] + 1 ELSE c[2] - 1>>

\* obstacle_iter without the write of the zero velocity
obstacle_iter_slip(g, c) ==
    IF cy = 1 /\ g.mask[c] = 1
    THEN { apply_bc_core(g, 0, 0, c, ObstacleNb(c), junk) :
             junk \in IF ObstacleNb(c) \in Cells THEN {NoJunk} ELSE Junk }
    ELSE {g}

\* one iteration of the obstacle loop of apply_bc, at cell c: the grids it
\* may leave (one, unless it reads outside the grid)
obstacle_iter(g, c) ==
    IF cy = 1 /\ g.mask[c] = 1
    THEN LET g1 == [g EXCEPT !.vel[c] = <<0, 0>>]
         IN  { apply_bc_core(g1, 0, 0, c, ObstacleNb(c), junk) :
                 junk \in IF ObstacleNb(c) \in Cells THEN {NoJunk} ELSE Junk }
    ELSE {g}

\* one iteration of the loop of get_display_var, at cell c
display_iter(g, c) ==
    LET v == g.vel[c]
    IN  [g EXCEPT !.display_var[c] =
            IF Fin(v[1]) /\ Fin(v[2])
            THEN ISqrt(v[1] * v[1] + v[2] * v[2], Abs(v[1]) + Abs(v[2]))
            ELSE NaN]

(* --------------------------- parallel loops --------------------------- *)
\* the grids iteration `it` of loop `loop` may leave from grid g
Iter(loop, g, it) ==
    CASE loop = "init" -> {init_iter(g, it)}
      [] loop = "collide" -> {collide_iter(g, it)}
      [] loop = "macro" -> {macro_iter(g, it)}
      [] loop = "lr" -> {lr_iter(g, it)}
      [] loop = "tb" -> {tb_iter(g, it)}
      [] loop = "obstacle" -> obstacle_iter(g, it)
      [] loop = "display" -> {display_iter(g, it)}

IntSeq(a, b) == IF b < a THEN <<>> ELSE [n \in 1..(b - a + 1) |-> a + n - 1]
Reverse(s) == IF s = <<>> THEN <<>> ELSE [n \in 1..Len(s) |-> s[Len(s) + 1 - n]]

\* the cells of S in ascending (row-major) order
CellSeq(S) ==
    LET all == [n \in 1..(nx * ny) |-> <<(n - 1) \div ny, (n - 1) % ny>>]
        keep(c) == c \in S
    IN  SelectSeq(all, keep)

\* the orders a parallel loop over the iterations s may run them in
Schedules(s) == {s, Reverse(s)}

RECURSIVE Sweep(_, _, _)
\* the grids left by running the iterations s, in this order, from a grid
\* of G
Sweep(loop, G, s) ==
    IF s = <<>> THEN G
    ELSE Sweep(loop, UNION {Iter(loop, g, Head(s)) : g \in G}, Tail(s))

\* the grids a parallel loop may leave
ParFor(loop, G, s) == UNION {Sweep(loop, G, o) : o \in Schedules(s)}

\* the range of `for j in ti.ndrange(1, self.ny - 1)`: rows 1 .. ny-2 as the
\* comments of apply_bc have it, or, as ti.ndrange(1, ny - 1) is the
\* two-dimensional range 1 x (ny - 1) and the loop has one variable, the
\* flattened range 0 .. ny-2.  Which one depends on the Taichi build.
LrRanges == {IntSeq(1, ny - 2), IntSeq(0, ny - 2)}

(* ------------------------------ accesses ------------------------------ *)
\* the locations <<field, index>> one call of apply_bc_core reads and writes
CoreAcc(outer, dr, bc, nb) ==
    [r |-> {<<"rho", nb>>, <<"vel", nb>>, <<"f_old", nb>>,
            <<"rho", bc>>, <<"vel", bc>>},
     w |-> {<<"rho", bc>>, <<"f_old", bc>>}
             \cup IF outer = 1 /\ bc_type[dr] \in {0, 1}
                  THEN {<<"vel", bc>>} ELSE {}]

AccUnion(a, b) == [r |-> a.r \cup b.r, w |-> a.w \cup b.w]

\* the locations iteration `it` of loop `loop` reads (r) and writes (w)
Acc(loop, it) ==
    CASE loop = "init" ->
           [r |-> {<<"rho", it>>, <<"vel", it>>, <<"f_new", it>>},
            w |-> {<<"rho", it>>, <<"vel", it>>, <<"mask", it>>,
                   <<"f_new", it>>, <<"f_old", it>>}]
      [] loop = "collide" ->
           [r |-> UNION {{<<"f_old", Upstream(it, k)>>, <<"rho", Upstream(it, k)>>,
                          <<"vel", Upstream(it, k)>>} : k \in Q},
            w |-> {<<"f_new", it>>}]
      [] loop = "macro" ->
           [r |-> {<<"f_new", it>>, <<"rho", it>>, <<"vel", it>>},
            w |-> {<<"f_old", it>>, <<"rho", it>>, <<"vel", it>>}]
      [] loop = "lr" ->
           AccUnion(CoreAcc(1, 0, <<0, it>>, <<1, it>>),
                    CoreAcc(1, 2, <<nx - 1, it>>, <<nx - 2, it>>))
      [] loop = "tb" ->
           AccUnion(CoreAcc(1, 1, <<it, ny - 1>>, <<it, ny - 2>>),
                    CoreAcc(1, 3, <<it, 0>>, <<it, 1>>))
      [] loop = "obstacle" ->
           IF cy = 1 /\ mask[it] = 1
           THEN AccUnion([r |-> {<<"mask", it>>}, w |-> {<<"vel", it>>}],
                         CoreAcc(0, 0, it, ObstacleNb(it)))
           ELSE [r |-> {<<"mask", it>>}, w |-> {}]
      [] loop = "display" ->
           [r |-> {<<"vel", it>>}, w |-> {<<"display_var", it>>}]

\* the parallel loops of each kernel, in order: <<loop, iterations>>, with
\* rng the range of the left-and-right loop
Loops(kernel, rng) ==
    CASE kernel = "init" -> << <<"init", CellSeq(Cells)>> >>
      [] kernel = "collide_and_stream" -> << <<"collide", CellSeq(Interior)>> >>
      [] kernel = "update_macro_var" -> << <<"macro", CellSeq(Interior)>> >>
      [] kernel = "apply_bc" ->
           << <<"lr", rng>>, <<"tb", IntSeq(0, nx - 1)>>,
              <<"obstacle", CellSeq(Cells)>> >>
      [] kernel = "get_display_var" -> << <<"display", CellSeq(Cells)>> >>

RECURSIVE RunLoops(_, _)
\* the grids the loops ls, run one after the other, may leave from a grid of G
RunLoops(G, ls) ==
    IF ls = <<>> THEN G
    ELSE RunLoops(ParFor(Head(ls)[1], G, Head(ls)[2]), Tail(ls))

\* the grids a kernel may leave from grid g
Run(kernel, g, rng) == RunLoops({g}, Loops(kernel, rng))

\* the indices a kernel reads or writes
Touched(kernel, rng) ==
    LET ls == Loops(kernel, rng)
        one(l) == UNION {Acc(l[1], l[2][n]).r \cup Acc(l[1], l[2][n]).w :
                           n \in 1..Len(l[2])}
    IN  {a[2] : a \in UNION {one(ls[m]) : m \in 1..Len(ls)}}

(* ------------------------------- inputs ------------------------------- *)
Nius == {1, 2}
\* left, top, right, bottom: each edge of each type, beside each type
BcTypes ==
    { [dr \in 0..3 |-> t[dr + 1]] :
        t \in { <<0, 0, 0, 0>>, <<1, 1, 1, 1>>, <<0, 0, 1, 0>>,
                 <<1, 1, 0, 1>>, <<0, 1, 0, 1>>, <<1, 0, 1, 0>> } }
\* a different value on every edge (2 stands for the velocity 0.1)
BcValues ==
    { [dr \in 0..3 |-> << <<2, 0>>, <<0, 2>>, <<-2, 0>>, <<2, 2>> >>[dr + 1]] }
\* <<cy, cy_para>>: no obstacle; a disc of radius 1.5 round the corner
\* (0, 0); a disc of radius 0.5 round the cell (2, 1)
Obstacles ==
    { <<0, <<0, 0, 0>>>>, <<1, <<0, 0, 3>>>>, <<1, <<4, 2, 1>>>> }

(* ------------------------------- solve -------------------------------- *)
\* the state after lbm_solver(...) has been constructed
Init ==
    /\ nx \in 3..MaxNx
    /\ ny \in 3..MaxNy
    /\ niu \in Nius
    /\ bc_type \in BcTypes
    /\ bc_value \in BcValues
    /\ \E o \in Obstacles : cy = o[1] /\ cy_para = o[2]
    /\ steps \in 0..MaxSteps
    /\ rho = Allocated(Cells).rho
    /\ vel = Allocated(Cells).vel
    /\ mask = Allocated(Cells).mask
    /\ f_old = Allocated(Cells).f_old
    /\ f_new = Allocated(Cells).f_new
    /\ display_var = Allocated(Cells).display_var
    /\ replay = Allocated(Cells)
    /\ pc = "init"
    /\ i = 0
    /\ trace = <<>>
    /\ touched = {}

\* solve() calls `kernel`, in both runs
Call(kernel) ==
    /\ pc = kernel
    /\ \E rng \in IF kernel = "apply_bc" THEN LrRanges ELSE {<<>>} :
          /\ LET out == Run(kernel, Grid, rng)
             IN  \E g \in out,
                    h \in IF replay = Grid THEN out ELSE Run(kernel, replay, rng) :
                    SetGrid(g) /\ replay' = h
          /\ touched' = Touched(kernel, rng)
    /\ trace' = Append(trace, kernel)
    /\ UNCHANGED params

init ==
    /\ Call("init")
    /\ pc' = IF steps > 0 THEN "collide_and_stream" ELSE "done"
    /\ i' = 0

collide_and_stream ==
    /\ Call("collide_and_stream")
    /\ pc' = "update_macro_var"
    /\ i' = i

update_macro_var ==
    /\ Call("update_macro_var")
    /\ pc' = "apply_bc"
    /\ i' = i

apply_bc ==
    /\ Call("apply_bc")
    /\ pc' = "get_display_var"
    /\ i' = i

\* get_display_var with a loop that stops at a zero density
get_display_var_stop ==
    /\ Call("get_display_var")
    /\ IF i + 1 < steps /\ \A c \in Cells : rho[c] # 0
       THEN pc' = "collide_and_stream" /\ i' = i + 1
       ELSE pc' = "done" /\ i' = i

\* the last kernel of an iteration of `for i in range(self.steps)`, and the
\* step of the loop
get_display_var ==
    /\ Call("get_display_var")
    /\ IF i + 1 < steps
       THEN pc' = "collide_and_stream" /\ i' = i + 1
       ELSE pc' = "done" /\ i' = i

Next ==
    \/ init
    \/ collide_and_stream
    \/ update_macro_var
    \/ apply_bc
    \/ get_display_var

Spec == Init /\ [][Next]_vars

(* ============================== claims ================================ *)
\* the two runs
Runs == {Grid, replay}

\* apply_bc has just returned
AfterBc == pc = "get_display_var"

\* the edge an outer-ring cell belongs to: 0 left, 1 top, 2 right, 3 bottom;
\* the corners belong to top and bottom
EdgeOf(c) ==
    IF c[2] = ny - 1 THEN 1
    ELSE IF c[2] = 0 THEN 3
    ELSE IF c[1] = 0 THEN 0 ELSE 2

\* the adjacent neighbour of an outer-ring cell, across its edge
NbOf(c) ==
    IF c[2] = ny - 1 THEN <<c[1], ny - 2>>
    ELSE IF c[2] = 0 THEN <<c[1], 1>>
    ELSE IF c[1] = 0 THEN <<1, c[2]>> ELSE <<nx - 2, c[2]>>

\* c is a cell of the obstacle
Masked(g, c) == cy = 1 /\ g.mask[c] = 1

\* the distributions init gives every cell
AtRest == [k \in Q |-> w[k] * (FOne \div 36)]

(* ---- C1 ---- *)
\* the calls solve() makes for `steps` = n: init, then n times the four
\* kernels of a step
ExpectedTrace(n) ==
    [m \in 1..(1 + 4 * n) |->
        IF m = 1 THEN "init"
        ELSE << "collide_and_stream", "update_macro_var", "apply_bc",
                "get_display_var" >>[((m - 2) % 4) + 1]]

\* the call solve() makes next can be made from the present fields: the
\* kernel has an outcome in both runs (the condition under which the action
\* of that call is enabled)
CanCall ==
    \E rng \in IF pc = "apply_bc" THEN LrRanges ELSE {<<>>} :
       Run(pc, Grid, rng) # {} /\ Run(pc, replay, rng) # {}

\* C1: solve() calls init once and then, `steps` times, collide_and_stream,
\* update_macro_var, apply_bc, get_display_var in this order: at every
\* moment the calls made so far are a prefix of that sequence, the call
\* made next is the next of the sequence and can be made whatever the
\* fields hold, and solve() is done exactly when the sequence is complete
C1_FixedSequence ==
    /\ Len(trace) <= 1 + 4 * steps
    /\ \A m \in 1..Len(trace) : trace[m] = ExpectedTrace(steps)[m]
    /\ (pc = "done") <=> (trace = ExpectedTrace(steps))
    /\ pc # "done" => pc = ExpectedTrace(steps)[Len(trace) + 1] /\ CanCall
    /\ i = IF pc = "done" THEN (IF steps = 0 THEN 0 ELSE steps - 1)
           ELSE (IF trace = <<>> THEN 0 ELSE (Len(trace) - 1) \div 4)

\* solve() has run all of two or more steps, with a zero density in the field
C1_Witness ==
    /\ pc = "done"
    /\ steps >= 2
    /\ Len(trace) = 1 + 4 * steps
    /\ \E c \in Cells : rho[c] = 0

(* ---- C2 ---- *)
\* C2 as stated: after apply_bc every outer-ring cell of a Dirichlet edge
\* holds the value of its edge, whatever the obstacle
C2_DirichletAnyObstacle ==
    AfterBc =>
      \A g \in Runs : \A c \in Ring :
         bc_type[EdgeOf(c)] = 0 => g.vel[c] = bc_value[EdgeOf(c)]

\* C2 amended: after apply_bc every outer-ring cell of a Dirichlet edge that
\* is not a cell of the obstacle holds exactly the value of its edge
C2_Dirichlet ==
    AfterBc =>
      \A g \in Runs : \A c \in Ring :
         bc_type[EdgeOf(c)] = 0 /\ ~Masked(g, c)
           => g.vel[c] = bc_value[EdgeOf(c)]

\* after apply_bc of the second step, with an obstacle on the ring: a free
\* corner of a Dirichlet top or bottom edge between a Neumann left or right
\* edge, and a free left cell of a Dirichlet left edge
C2_Witness ==
    /\ AfterBc
    /\ i >= 1
    /\ cy = 1
    /\ \E c \in Ring : mask[c] = 1
    /\ \E c \in Ring :
          /\ c[1] \in {0, nx - 1} /\ c[2] \in {0, ny - 1}
          /\ mask[c] = 0
          /\ bc_type[EdgeOf(c)] = 0
          /\ bc_type[IF c[1] = 0 THEN 0 ELSE 2] = 1
          /\ vel[c] = bc_value[EdgeOf(c)]
    /\ \E c \in Ring :
          /\ EdgeOf(c) = 0 /\ mask[c] = 0 /\ bc_type[0] = 0
          /\ vel[c] = bc_value[0]

(* ---- C3 ---- *)
\* C3 as stated: after apply_bc every outer-ring cell of a Neumann edge has
\* the velocity of its neighbour, whatever the obstacle
C3_NeumannAnyObstacle ==
    AfterBc =>
      \A g \in Runs : \A c \in Ring :
         bc_type[EdgeOf(c)] = 1 => g.vel[c] = g.vel[NbOf(c)]

\* C3 amended: after apply_bc every outer-ring cell of a Neumann edge has
\* the velocity its neighbour holds then, provided neither of the two is a
\* cell of the obstacle
C3_Neumann ==
    AfterBc =>
      \A g \in Runs : \A c \in Ring :
         bc_type[EdgeOf(c)] = 1 /\ ~Masked(g, c) /\ ~Masked(g, NbOf(c))
           => g.vel[c] = g.vel[NbOf(c)]

\* after apply_bc, with the obstacle enabled: a free cell of a Neumann edge
\* that took a velocity other than zero from its free neighbour
C3_Witness ==
    /\ AfterBc
    /\ cy = 1
    /\ \E c \in Ring :
          /\ bc_type[EdgeOf(c)] = 1
          /\ mask[c] = 0 /\ mask[NbOf(c)] = 0
          /\ vel[c] = vel[NbOf(c)]
          /\ vel[c] # <<0, 0>>

(* ---- C4 ---- *)
\* C4: with the obstacle enabled, after apply_bc every cell of the obstacle
\* has velocity (0, 0)
C4_NoSlip ==
    AfterBc /\ cy = 1 =>
      \A g \in Runs : \A c \in Cells : g.mask[c] = 1 => g.vel[c] = <<0, 0>>

\* after apply_bc of the second step: an obstacle cell inside the grid, and
\* one on a Dirichlet edge whose value is not zero, both at rest
C4_Witness ==
    /\ AfterBc
    /\ i >= 1
    /\ cy = 1
    /\ \E c \in Interior : mask[c] = 1 /\ vel[c] = <<0, 0>>
    /\ \E c \in Ring :
          /\ mask[c] = 1
          /\ bc_type[EdgeOf(c)] = 0
          /\ bc_value[EdgeOf(c)] # <<0, 0>>
          /\ vel[c] = <<0, 0>>

(* ---- C5 ---- *)
\* no obstacle cell has its neighbour outside the grid
NbInGrid == \A c \in Cells : Masked(Grid, c) => ObstacleNb(c) \in Cells

\* C5: two runs with the same parameters end with the same rho and vel at
\* every cell (stated for the runs that read no index outside the grid)
C5_Replay ==
    pc = "done" /\ NbInGrid =>
      \A c \in Cells : rho[c] = replay.rho[c] /\ vel[c] = replay.vel[c]

(* ---- C6 ---- *)
\* C6: the weights sum to 1 (36/36) and e[0] = (0, 0); when init has
\* returned every cell has rho = 1, vel = (0, 0) and
\* f_old[k] = f_new[k] = w[k] * rho, so that the f_old[k] sum to rho
C6_Equilibrium ==
    /\ w[0] + w[1] + w[2] + w[3] + w[4] + w[5] + w[6] + w[7] + w[8] = 36
    /\ e[0] = <<0, 0>>
    /\ trace = <<"init">> =>
         \A g \in Runs : \A c \in Cells :
            /\ g.rho[c] = FOne
            /\ g.vel[c] = <<0, 0>>
            /\ \A k \in Q :
                  /\ g.f_old[c][k] = g.f_new[c][k]
                  /\ 36 * g.f_old[c][k] = w[k] * g.rho[c]
                  /\ g.f_old[c][k] = f_eq_of(g.rho[c], g.vel[c], k)
            /\ Sum9(g.f_old[c]) = g.rho[c]

\* init has returned, with an obstacle placed, and the first step is next
C6_Witness ==
    /\ trace = <<"init">>
    /\ pc = "collide_and_stream"
    /\ cy = 1
    /\ \E c \in Cells : mask[c] = 1
    /\ \A c \in Cells : rho[c] = FOne /\ f_old[c] = AtRest

(* ---- C7 ---- *)
\* what collide_and_stream may do from grid g to grid h
CollideFrame(g, h) ==
    /\ h.f_old = g.f_old
    /\ h.rho = g.rho
    /\ h.vel = g.vel
    /\ h.mask = g.mask
    /\ \A c \in Ring : h.f_new[c] = g.f_new[c]
    /\ \A c \in Interior : \A k \in Q :
          LET up == <<c[1] - e[k][1], c[2] - e[k][2]>>
          IN  /\ up \in Cells
              /\ h.f_new[c][k] =
                   Relax(g.f_old[up][k], f_eq_of(g.rho[up], g.vel[up], k))

\* C7: collide_and_stream leaves f_old, rho, vel and mask as they are and
\* writes f_new at the interior cells only, each f_new[c][k] from f_old,
\* rho and vel of the cell c - e[k]; once init has returned no kernel
\* changes f_new at an outer-ring cell
C7_CollideFrame ==
    [][/\ pc = "collide_and_stream" =>
            CollideFrame(Grid, Grid') /\ CollideFrame(replay, replay')
       /\ pc # "init" =>
            \A c \in Ring : /\ f_new'[c] = f_new[c]
                            /\ f_new[c] = AtRest
                            /\ replay'.f_new[c] = replay.f_new[c]]_vars

\* collide_and_stream has returned in the second step and has written
\* distributions other than those of init into an interior cell
C7_Witness ==
    /\ pc = "update_macro_var"
    /\ i >= 1
    /\ \E c \in Interior : f_new[c] # AtRest /\ f_new[c] # f_old[c]
    /\ \A c \in Ring : f_new[c] = AtRest

(* ---- C8 ---- *)
\* the cells an iteration calls its own
Own(loop, it) ==
    CASE loop = "lr" -> {<<0, it>>, <<nx - 1, it>>}
      [] loop = "tb" -> {<<it, ny - 1>>, <<it, 0>>}
      [] OTHER -> {it}

\* no two iterations of the loop l = <<loop, iterations>> touch a location
\* that one of them writes, and each writes its own cells only
Independent(l) ==
    \A a, b \in 1..Len(l[2]) :
       /\ {x[2] : x \in Acc(l[1], l[2][a]).w} \subseteq Own(l[1], l[2][a])
       /\ a # b =>
            Acc(l[1], l[2][a]).w
              \cap (Acc(l[1], l[2][b]).r \cup Acc(l[1], l[2][b]).w) = {}

\* C8: in every parallel loop of collide_and_stream, update_macro_var and
\* apply_bc, an iteration writes its own cell only and reads no location
\* another iteration of the loop writes
C8_Independent ==
    pc \in {"collide_and_stream", "update_macro_var", "apply_bc"} =>
      \A rng \in LrRanges :
         \A m \in 1..Len(Loops(pc, rng)) : Independent(Loops(pc, rng)[m])

(* ---- C9 ---- *)
\* what apply_bc may do from grid g to grid h
BcFrame(g, h) ==
    /\ h.mask = g.mask
    /\ h.f_new = g.f_new
    /\ \A c \in Interior :
          ~Masked(g, c) =>
             /\ h.rho[c] = g.rho[c]
             /\ h.vel[c] = g.vel[c]
             /\ h.f_old[c] = g.f_old[c]

\* C9: apply_bc leaves mask and f_new as they are at every cell, and rho,
\* vel and f_old at every interior cell that is not a cell of the obstacle
C9_BcFrame ==
    [][pc = "apply_bc" => BcFrame(Grid, Grid') /\ BcFrame(replay, replay')]_vars

\* apply_bc has returned in the second step, without an obstacle, over an
\* interior cell that moves and a ring cell it has changed
C9_Witness ==
    /\ AfterBc
    /\ i >= 1
    /\ cy = 0
    /\ \E c \in Interior : vel[c] # <<0, 0>> /\ f_old[c] = f_new[c]
    /\ \E c \in Ring : vel[c] # <<0, 0>> /\ f_old[c] # AtRest

(* ---- C10 ---- *)
\* C10: every index the last kernel read or wrote lies inside the grid
C10_IndexSafe == touched \subseteq Cells

====
